---- MODULE Spec2Model ----
(***************************************************************************)
(* A model of src/src/lib/index.ts of numjs: the shape algebra             *)
(* (broadcast), the view operations flip and rot90 over a shared buffer,   *)
(* the joining operations stack and concatenate, the element-wise          *)
(* functions and arange.                                                   *)
(*                                                                         *)
(* Axes and indices are 0-based as in the source; a TLA+ sequence s holds  *)
(* the source's element i at s[i + 1].                                     *)
(***************************************************************************)
EXTENDS Integers, Sequences, FiniteSets, TLC

VARIABLES
    pc,         \* position of the running call: "ready", a loop, "done"
    shape1,     \* broadcast: first argument
    shape2,     \* broadcast: second argument
    bres,       \* broadcast: what the call returned
    data,       \* the buffers: data[b] is the flat store of buffer b
    y,          \* the NdArray the caller holds now (the last one returned)
    arg,        \* the NdArray the last call was given
    call,       \* the last call: its name and its optional argument
    err,        \* what the last call raised: "none" or "ValueError"
    chain,      \* the run of default rot90 calls: where it began, how many
    writes,     \* element writes made so far
    cleanaxis,  \* flip: its local cleanaxis while the loop runs
    objs,       \* concatenate: the heap of nested arrays, by object id
    arrays,     \* concatenate: the caller's list of inputs
    cin,        \* concatenate: the heap and the list as they were passed
    cres,       \* concatenate: what the call returned or raised
    sarrays,    \* stack: the inputs, each its shape and row-major elements
    saxis,      \* stack: the optional axis argument
    sres,       \* stack: what the call returned or raised
    args,       \* arange: the numbers it was called with
    start,      \* arange: its local start, the next element
    stop,       \* arange: its local stop
    step,       \* arange: its local step
    result      \* arange: its local result, the elements so far

bvars == <<shape1, shape2, bres>>
vvars == <<data, y, arg, call, err, chain, writes, cleanaxis>>
cvars == <<objs, arrays, cin, cres>>
svars == <<sarrays, saxis, sres>>
avars == <<args, start, stop, step, result>>

vars == <<pc, shape1, shape2, bres, data, y, arg, call, err, chain, writes,
          cleanaxis, objs, arrays, cin, cres, sarrays, saxis, sres,
          args, start, stop, step, result>>

(***************************************************************************)
(* Bounds of the model.                                                    *)
(***************************************************************************)
MaxRank == 2        \* longest shape drawn for broadcast
MaxDim == 4         \* largest dimension drawn for broadcast
MaxViewDim == 2     \* largest dimension of the arrays flipped and rotated
MaxWrites == 1      \* element writes in one behaviour
MaxK == 4           \* rot90 is called with k in -MaxK..MaxK, or without k
MaxAxis == 3        \* flip is called with axis in -MaxAxis..MaxAxis
MaxConcatDim == 2   \* largest dimension of the arrays concatenated
MaxInputs == 3      \* most inputs of one concatenate call
MaxStackN == 3      \* most inputs of one stack call
MaxStackRank == 2   \* largest rank of the arrays stacked
MaxStackDim == 2    \* largest dimension of the arrays stacked
MaxElemDim == 2     \* largest dimension of the arrays given to a function
MaxArg == 2         \* arange is called with numbers in -MaxArg..MaxArg
MaxNumber == 4      \* largest magnitude a number is held exactly at
MaxResult == 3      \* elements of arange's result the model keeps

(***************************************************************************)
(* JavaScript values.                                                      *)
(***************************************************************************)
\* `undefined`: what reading an array past its end yields.
Undefined == -1

Max(a, b) == IF a >= b THEN a ELSE b

\* !v of JavaScript for v a number or undefined.
Falsy(v) == v = Undefined \/ v = 0

\* arr[i] for a 0-based index i: undefined outside the array.
At(arr, i) == IF i >= 0 /\ i < Len(arr) THEN arr[i + 1] ELSE Undefined

\* arr.slice().reverse()
Reverse(arr) == [i \in 1..Len(arr) |-> arr[Len(arr) + 1 - i]]

\* broadcast before it has returned, and its bare `return;`.
NoResult == [ok |-> FALSE, shape |-> <<>>]

\* All sequences over S of length 0..n.
SeqUpTo(S, n) == UNION {[1..k -> S] : k \in 0..n}

(***************************************************************************)
(* NdArray: a view (buf, shape, stride, offset) over a flat buffer.        *)
(***************************************************************************)
Abs(n) == IF n < 0 THEN -n ELSE n

CeilDiv(a, b) == (a + b - 1) \div b

RECURSIVE shapeSize(_)
shapeSize(shape) ==
    IF Len(shape) = 0 THEN 1 ELSE Head(shape) * shapeSize(Tail(shape))

\* Row-major strides of a freshly allocated array.
RowMajor(shape) ==
    [i \in 1..Len(shape) |-> shapeSize(SubSeq(shape, i + 1, Len(shape)))]

\* new NdArray(buffer, shape)
NewArray(b, shape) ==
    [buf |-> b, shape |-> shape, stride |-> RowMajor(shape), offset |-> 0]

ndim(m) == Len(m.shape)

RECURSIVE SumTo(_, _)
SumTo(f, n) == IF n = 0 THEN 0 ELSE f[n] + SumTo(f, n - 1)

RECURSIVE SeqMax(_)
SeqMax(shape) ==
    IF Len(shape) = 0 THEN 0 ELSE Max(Head(shape), SeqMax(Tail(shape)))

\* The multi-indices of a shape.
Indices(shape) ==
    {idx \in [1..Len(shape) -> 0..SeqMax(shape)] :
        \A i \in 1..Len(shape) : idx[i] < shape[i]}

\* The buffer position of a multi-index.
Pos(m, idx) ==
    m.offset + SumTo([i \in 1..Len(idx) |-> idx[i] * m.stride[i]], Len(idx))

\* m.get(...idx)
Get(d, m, idx) == d[m.buf][Pos(m, idx) + 1]

\* m.set(...idx, value)
Set(d, m, idx, value) == [d EXCEPT ![m.buf][Pos(m, idx) + 1] = value]

\* The multi-index of the p-th element (from 0) in row-major order.
Unravel(p, shape) ==
    [i \in 1..Len(shape) |->
        (p \div shapeSize(SubSeq(shape, i + 1, Len(shape)))) % shape[i]]

\* The elements of m in row-major order.
Flat(d, m) ==
    [p \in 1..shapeSize(m.shape) |-> Get(d, m, Unravel(p - 1, m.shape))]

\* m.clone(): a fresh contiguous array in the other buffer.
Clone(m) == NewArray(3 - m.buf, m.shape)

\* The buffers once a call returned r for the argument m: a result in a
\* buffer of its own holds a copy of m's elements.
Allocate(d, m, r) ==
    IF r.buf = m.buf THEN d ELSE [d EXCEPT ![r.buf] = Flat(d, m)]

\* NdArray.new(m) for m an NdArray: m itself.
NdArrayNew(m) == m

\* m.step(...steps)
Step(m, steps) ==
    [buf |-> m.buf,
     shape |-> [i \in 1..ndim(m) |-> CeilDiv(m.shape[i], Abs(steps[i]))],
     stride |-> [i \in 1..ndim(m) |-> m.stride[i] * steps[i]],
     offset |-> m.offset +
                SumTo([i \in 1..ndim(m) |->
                          IF steps[i] < 0
                          THEN m.stride[i] * (m.shape[i] - 1)
                          ELSE 0], ndim(m))]

Ok(v) == [err |-> "none", view |-> v]
Throw(e, m) == [err |-> e, view |-> m]

IsPermutation(axes, d) ==
    /\ Len(axes) = d
    /\ \A a \in 0..(d - 1) : \E i \in 1..d : axes[i] = a

\* m.transpose(axes)
Transpose(m, axes) ==
    IF ~IsPermutation(axes, ndim(m))
    THEN Throw("ValueError", m)
    ELSE Ok([buf |-> m.buf,
             shape |-> [i \in 1..ndim(m) |-> m.shape[axes[i] + 1]],
             stride |-> [i \in 1..ndim(m) |-> m.stride[axes[i] + 1]],
             offset |-> m.offset])

\* transpose(x, axes)
transpose(x, axes) == Transpose(NdArrayNew(x), axes)

\* ones(n).tolist()
onesList(n) == [i \in 1..n |-> 1]

\* arange(n).tolist()
arangeList(n) == [i \in 1..n |-> i - 1]

\* arr[i] = v, which lengthens arr when i is past its end.
SetAt(arr, i, v) ==
    [j \in 1..Max(Len(arr), i + 1) |->
        IF j = i + 1 THEN v ELSE At(arr, j - 1)]

\* An optional argument: <<>> when omitted, <<v>> when given.
\* arg || dflt
OrDefault(a, dflt) == IF a = <<>> \/ a[1] = 0 THEN dflt ELSE a[1]

(***************************************************************************)
(* flip(m, axis)                                                           *)
(***************************************************************************)
\* A slip: the indexer is marked at the raw axis, which for a negative axis
\* sets no element of it.
flipTail_RawAxis(m0, axis, clean) ==
    LET m == NdArrayNew(m0)
        indexer == onesList(ndim(m))
    IN  IF At(indexer, clean) = Undefined
        THEN Throw("ValueError", m)
        ELSE Ok(Step(m, IF axis >= 0 THEN SetAt(indexer, axis, -1)
                        ELSE indexer))

\* A slip: the input is cloned before it is stepped.
flipTail_Clone(m0, axis, clean) ==
    LET m == Clone(NdArrayNew(m0))
        indexer == onesList(ndim(m))
    IN  IF At(indexer, clean) = Undefined
        THEN Throw("ValueError", m)
        ELSE Ok(Step(m, SetAt(indexer, clean, -1)))

\* flip after its while loop has left cleanaxis non-negative.
flipTail(m0, axis, clean) ==
    LET m == NdArrayNew(m0)
        indexer == onesList(ndim(m))
    IN  IF At(indexer, clean) = Undefined
        THEN Throw("ValueError", m)
        ELSE Ok(Step(m, SetAt(indexer, clean, -1)))

\* while (cleanaxis < 0) cleanaxis += m.ndim, where it ends.
RECURSIVE CleanAxis(_, _)
CleanAxis(axis, d) == IF axis < 0 THEN CleanAxis(axis + d, d) ELSE axis

\* flip called with an axis its loop ends on (axis >= 0, or ndim > 0).
flip(m, axis) == flipTail(m, axis, CleanAxis(axis, ndim(m)))

(***************************************************************************)
(* rot90(m, k, axes) with the default axes                                 *)
(***************************************************************************)
\* abs(number).ndim: a number becomes an array of shape [1].
ScalarArrayNdim == 1

\* k = k || 1; while (k < 0) k += 4; k = k % 4
NormalizeK(karg) == CleanAxis(OrDefault(karg, 1), 4) % 4

\* A slip: the second assignment of the swap is left out.
swapAxes_NoKeep(axesList, axes2) ==
    SetAt(axesList, axes2[1], At(axesList, axes2[2]))

\* keep = axesList[axes2[0]]; axesList[axes2[0]] = axesList[axes2[1]];
\* axesList[axes2[1]] = keep
swapAxes(axesList, axes2) ==
    LET keep == At(axesList, axes2[1])
    IN  SetAt(SetAt(axesList, axes2[1], At(axesList, axes2[2])),
              axes2[2], keep)

rot90(m0, karg) ==
    LET k == NormalizeK(karg)
        m == NdArrayNew(m0)
        axes2 == <<0, 1>>
        swapped == swapAxes(arangeList(ndim(m)), axes2)
    IN  IF axes2[1] = axes2[2] \/ ScalarArrayNdim = ndim(m)
        THEN Throw("ValueError", m)
        ELSE IF k = 0 THEN Ok(m)
        ELSE IF k = 2
        THEN LET f == flip(m, axes2[1])
             IN  IF f.err # "none" THEN f ELSE flip(f.view, axes2[2])
        ELSE IF k = 1
        THEN LET f == flip(m, axes2[2])
             IN  IF f.err # "none" THEN f ELSE transpose(f.view, swapped)
        ELSE LET t == transpose(m, swapped)
             IN  IF t.err # "none" THEN t ELSE flip(t.view, axes2[2])

(***************************************************************************)
(* concatenate(arrays)                                                     *)
(*                                                                         *)
(* A nested array is an object of the heap: [d |-> its nesting depth,      *)
(* v |-> its elements]. The depth stands for what typeof tells the code:   *)
(* whether an element is itself an array. Only the outermost array of an   *)
(* input is ever assigned to, so rows are held by value.                   *)
(* An input is [kind, ref]: a plain nested array ("arr", its object id),   *)
(* an NdArray ("nd", the object its tolist() copies) or a number ("num",   *)
(* the number).                                                            *)
(***************************************************************************)
\* The largest rank concatenate has a branch for.
MaxSupportedRank == 3

\* _.getShape(array): the lengths met walking down first elements.
RECURSIVE Dims(_, _)
Dims(d, v) ==
    IF d = 0 THEN <<>>
    ELSE IF Len(v) = 0 THEN <<0>>
    ELSE <<Len(v)>> \o Dims(d - 1, v[1])

getShape(o) == Dims(o.d, o.v)

\* The loop of lines 631-634: NdArrays become lists, numbers one-element
\* lists, each a new object; the list itself is assigned to.
RECURSIVE convertInputs(_, _, _)
convertInputs(h, items, i) ==
    IF i > Len(items) THEN [h |-> h, arrays |-> items]
    ELSE LET a == items[i]
             fresh == [kind |-> "arr", ref |-> Len(h) + 1]
         IN  IF a.kind = "nd"
             THEN convertInputs(Append(h, h[a.ref]),
                                [items EXCEPT ![i] = fresh], i + 1)
             ELSE IF a.kind = "num"
             THEN convertInputs(Append(h, [d |-> 1, v |-> <<a.ref>>]),
                                [items EXCEPT ![i] = fresh], i + 1)
             ELSE convertInputs(h, items, i + 1)

\* The loop of lines 636-680 from input i on, m the object joined so far.
RECURSIVE concatLoop(_, _, _, _)
concatLoop(h, items, m, i) ==
    IF i > Len(items) THEN [err |-> "none", h |-> h, m |-> m]
    ELSE
      LET a == items[i].ref
          mShape == getShape(h[m])
          aShape == getShape(h[a])
          mLen == Len(mShape)
          aLen == Len(aShape)
      IN  IF mLen # aLen
          THEN [err |-> "ValueError", h |-> h, m |-> m]
          ELSE IF mLen = 1 /\ aLen = 1
          THEN concatLoop(Append(h, [d |-> h[m].d, v |-> h[m].v \o h[a].v]),
                          items, Len(h) + 1, i + 1)
          ELSE IF \/ mLen = 2 /\ aLen = 2 /\ mShape[1] = aShape[1]
                  \/ mLen = 1 /\ aLen = 2 /\ mShape[1] = aShape[1]
                  \/ mLen = 2 /\ aLen = 1 /\ mShape[1] = aShape[1]
          THEN concatLoop(
                  [h EXCEPT ![m].v =
                      [row \in 1..mShape[1] |-> h[m].v[row] \o h[a].v[row]]],
                  items, m, i + 1)
          ELSE IF \/ /\ mLen = 3 /\ aLen = 3
                     /\ mShape[1] = aShape[1] /\ mShape[2] = aShape[2]
                  \/ /\ mLen = 2 /\ aLen = 3
                     /\ mShape[1] = aShape[1] /\ mShape[2] = aShape[2]
                  \/ /\ mLen = 3 /\ aLen = 2
                     /\ mShape[1] = aShape[1] /\ mShape[2] = aShape[2]
          THEN concatLoop(
                  [h EXCEPT ![m].v =
                      [rowI \in 1..mShape[1] |->
                          [colI \in 1..mShape[2] |->
                              h[m].v[rowI][colI] \o h[a].v[rowI][colI]]]],
                  items, m, i + 1)
          ELSE [err |-> "ValueError", h |-> h, m |-> m]

\* concatenate called with one list of at least one input: what it raises,
\* the nested array the result is built from, the heap and the list after.
concatenate(h, items) ==
    LET conv == convertInputs(h, items, 1)
        out == concatLoop(conv.h, conv.arrays, conv.arrays[1].ref, 2)
    IN  [err |-> out.err, value |-> out.h[out.m], h |-> out.h,
         arrays |-> conv.arrays]

\* The nested array of a shape whose elements, in row-major order, are
\* base, base + 1, ...
RECURSIVE Nested(_, _)
Nested(shape, base) ==
    IF Len(shape) = 0 THEN base
    ELSE [i \in 1..Head(shape) |->
            Nested(Tail(shape), base + (i - 1) * shapeSize(Tail(shape)))]

NewObject(shape, base) == [d |-> Len(shape), v |-> Nested(shape, base)]

(***************************************************************************)
(* stack(arrays, axis)                                                     *)
(*                                                                         *)
(* An input is [shape, elems]: its shape ([] for a number) and its         *)
(* elements in row-major order. The result is a view and its buffer.       *)
(***************************************************************************)
RECURSIVE JoinSeqs(_, _)
JoinSeqs(vs, n) == IF n = 0 THEN <<>> ELSE JoinSeqs(vs, n - 1) \o vs[n]

\* A slip: the new axis and axis 0 are exchanged, not rotated into place.
stackAxes_Swap(axis, d) ==
    [i \in 1..d |->
        IF i - 1 = axis THEN 0 ELSE IF i - 1 = 0 THEN axis ELSE i - 1]

\* axes[i] = i < axis ? i + 1 : i === axis ? 0 : i
stackAxes(axis, d) ==
    [i \in 1..d |->
        IF i - 1 < axis THEN i ELSE IF i - 1 = axis THEN 0 ELSE i - 1]

NoStack == [err |-> "none", view |-> NewArray(1, <<>>), data |-> <<>>]

RaiseStack(e) == [NoStack EXCEPT !.err = e]

\* Lines 815-824: the numbers concatenated, or zeros([n].concat(shape))
\* with input i assigned to stacked.pick(i).
stacked(inputs) ==
    LET n == Len(inputs)
        expectedShape == inputs[1].shape
    IN  IF Len(expectedShape) = 0
        THEN LET c == concatenate(<<>>, [i \in 1..n |->
                          [kind |-> "num", ref |-> inputs[i].elems[1]]])
             IN  [view |-> NewArray(1, getShape(c.value)), data |-> c.value.v]
        ELSE [view |-> NewArray(1, <<n>> \o expectedShape),
              data |-> JoinSeqs([i \in 1..n |-> inputs[i].elems], n)]

stack(inputs, axisArg) ==
    LET axis0 == OrDefault(axisArg, 0)
        n == Len(inputs)
    IN  IF n = 0 THEN RaiseStack("ValueError")
        ELSE IF \E i \in 2..n :
                  \E j \in 0..(Max(Len(inputs[1].shape),
                                   Len(inputs[i].shape)) - 1) :
                      At(inputs[1].shape, j) # At(inputs[i].shape, j)
        THEN RaiseStack("ValueError")
        ELSE
          LET st == stacked(inputs)
          IN  IF axis0 # 0
              THEN LET axis == IF axis0 < 0 THEN ndim(st.view) + axis0
                               ELSE axis0
                       t == Transpose(st.view,
                                      stackAxes(axis, ndim(st.view)))
                   IN  IF t.err # "none" THEN RaiseStack(t.err)
                       ELSE [err |-> "none", view |-> t.view,
                             data |-> st.data]
              ELSE [err |-> "none", view |-> st.view, data |-> st.data]

(***************************************************************************)
(* broadcast(shape1, shape2)                                               *)
(***************************************************************************)
\* The branch taken for one aligned pair falls through to `return;`.
Incompatible(d1, d2) ==
    /\ ~(Falsy(d1) \/ d1 = 1)
    /\ ~(Falsy(d2) \/ d2 = 1)
    /\ d1 # d2

\* outShape[i] of one aligned pair.
OutDim(d1, d2) ==
    IF Falsy(d1) \/ d1 = 1 THEN d2
    ELSE IF Falsy(d2) \/ d2 = 1 THEN d1
    ELSE d1

\* The value returned: ok = FALSE is the bare `return;` (undefined).
broadcast(s1, s2) ==
    IF Len(s1) = 0 \/ Len(s2) = 0
    THEN [ok |-> FALSE, shape |-> <<>>]
    ELSE LET reversed1 == Reverse(s1)
             reversed2 == Reverse(s2)
             maxLength == Max(Len(s1), Len(s2))
             outShape == [i \in 1..maxLength |->
                            OutDim(At(reversed1, i - 1), At(reversed2, i - 1))]
         IN  IF \E i \in 0..(maxLength - 1) :
                    Incompatible(At(reversed1, i), At(reversed2, i))
             THEN [ok |-> FALSE, shape |-> <<>>]
             ELSE [ok |-> TRUE, shape |-> Reverse(outShape)]

(***************************************************************************)
(* The element-wise functions. An element is [f, x]: the number x itself   *)
(* (f = "num"), or the value of the function f at the integer x where      *)
(* that value is no integer.                                               *)
(***************************************************************************)
Num(n) == [f |-> "num", x |-> n]

Of(fn, n) == [f |-> fn, x |-> n]

Min(a, b) == IF a <= b THEN a ELSE b

\* The bound of doSigmoid's tests on a.
Saturation == 30

\* 1 / (1 + Math.exp(-1 * z)) in double precision: from z = 37 on exp(-z)
\* is below half an ulp of 1 and the quotient is exactly 1; from z = -710
\* down exp(-z) is Infinity and the quotient is exactly 0.
Logistic(z) ==
    IF z >= 37 THEN Num(1)
    ELSE IF z <= -710 THEN Num(0)
    ELSE Of("logistic", z)

\* The body of doSigmoid for one element a and the scalar t.
doSigmoid(a, t) ==
    IF a < -Saturation THEN Num(0)
    ELSE IF a > Saturation THEN Num(1)
    ELSE Logistic(t * a)

\* The body of doClip.
doClip(a, min, max) == Num(Min(Max(min, a), max))

\* The body of doLeakyRelu; alpha = <<>> stands for the default 1e-3, under
\* which alpha * xi is the larger only for a negative xi.
doLeakyRelu(xi, alpha) ==
    IF alpha = <<>>
    THEN IF xi < 0 THEN Of("milli", xi) ELSE Num(xi)
    ELSE Num(Max(alpha[1] * xi, xi))

\* The body of doTanh and the ops of the array primitive, exact where the
\* value is an integer.
doTanh(xi) == IF xi = 0 THEN Num(0) ELSE Of("tanh", xi)
abseq(xi) == Num(Abs(xi))
coseq(xi) == IF xi = 0 THEN Num(1) ELSE Of("cos", xi)
acoseq(xi) == IF xi = 1 THEN Num(0) ELSE Of("arccos", xi)
sineq(xi) == IF xi = 0 THEN Num(0) ELSE Of("sin", xi)
asineq(xi) == IF xi = 0 THEN Num(0) ELSE Of("arcsin", xi)
taneq(xi) == IF xi = 0 THEN Num(0) ELSE Of("tan", xi)
ataneq(xi) == IF xi = 0 THEN Num(0) ELSE Of("arctan", xi)

\* What the function op called with the optional arguments a makes of one
\* element: sigmoid's t = t || 1, clip's defaults by the number of
\* arguments, leakyRelu's alpha = alpha || 1e-3.
elementOf(op, a, xi) ==
    CASE op = "sigmoid" -> doSigmoid(xi, OrDefault(a, 1))
      [] op = "clip" -> doClip(xi,
                               IF Len(a) = 0 THEN 0 ELSE a[1],
                               IF Len(a) <= 1 THEN 1 ELSE a[2])
      [] op = "leakyRelu" ->
            doLeakyRelu(xi, IF a = <<>> \/ a[1] = 0 THEN <<>> ELSE a)
      [] op = "tanh" -> doTanh(xi)
      [] op = "abs" -> abseq(xi)
      [] op = "cos" -> coseq(xi)
      [] op = "arccos" -> acoseq(xi)
      [] op = "sin" -> sineq(xi)
      [] op = "arcsin" -> asineq(xi)
      [] op = "tan" -> taneq(xi)
      [] op = "arctan" -> ataneq(xi)

\* A slip: the function works on the array it was given.
elementwise_InPlace(d, x, op, a) ==
    LET s == NdArrayNew(x)
    IN  [view |-> s,
         data |-> [d EXCEPT ![s.buf] =
                      [p \in 1..Len(d[s.buf]) |->
                          IF p - 1 \in {Pos(s, idx) : idx \in Indices(s.shape)}
                          THEN elementOf(op, a, d[s.buf][p].x)
                          ELSE d[s.buf][p]]]]

\* x instanceof NdArray ? x.clone() : NdArray.new(x), or sigmoid's
\* NdArray.new(x).clone(), for x an NdArray, and the function applied to
\* every element of the clone: the array returned and the buffers after.
elementwise(d, x, op, a) ==
    LET s == Clone(NdArrayNew(x))
        cloned == Flat(d, x)
    IN  [view |-> s,
         data |-> [d EXCEPT ![s.buf] =
                      [p \in 1..Len(cloned) |->
                          elementOf(op, a, cloned[p].x)]]]

(***************************************************************************)
(* The variables of the operations a specification leaves alone.            *)
(***************************************************************************)
\* The broadcast variables of a specification that does not call it.
IdleBroadcast ==
    /\ shape1 = <<>>
    /\ shape2 = <<>>
    /\ bres = NoResult

NoCall == [op |-> "none", a |-> <<>>]

\* The view variables of a specification that calls neither flip nor rot90.
IdleViews ==
    /\ data = <<<<0>>, <<>>>>
    /\ y = NewArray(1, <<>>)
    /\ arg = NewArray(1, <<>>)
    /\ call = NoCall
    /\ err = "none"
    /\ chain = [from |-> NewArray(1, <<>>), n |-> 0]
    /\ writes = 0
    /\ cleanaxis = 0

NoConcat == [err |-> "none", value |-> [d |-> 1, v |-> <<>>]]

\* The concatenate variables of a specification that does not call it.
IdleConcat ==
    /\ objs = <<>>
    /\ arrays = <<>>
    /\ cin = [objs |-> <<>>, arrays |-> <<>>]
    /\ cres = NoConcat

\* The stack variables of a specification that does not call it.
IdleStack ==
    /\ sarrays = <<>>
    /\ saxis = <<>>
    /\ sres = NoStack

\* The arange variables of a specification that does not call it.
IdleArange ==
    /\ args = <<>>
    /\ start = 0
    /\ stop = 0
    /\ step = 0
    /\ result = <<>>

(***************************************************************************)
(* The caller: it holds an array y, calls flip or rot90 on it, keeps what  *)
(* is returned, and writes elements through either array.                 *)
(***************************************************************************)
\* Every shape of rank 0 to 2 within the bound, and two of rank 3.
ViewShapes ==
    UNION {[1..r -> 1..MaxViewDim] : r \in {0, 1, 2}}
        \cup {<<2, 1, 2>>, <<2, 2, 2>>}

InitViews ==
    /\ pc = "ready"
    /\ \E shape \in ViewShapes :
          /\ y = NewArray(1, shape)
          /\ arg = NewArray(1, shape)
          /\ chain = [from |-> NewArray(1, shape), n |-> 0]
          /\ data = <<[p \in 1..shapeSize(shape) |-> p], <<>>>>
    /\ call = NoCall
    /\ err = "none"
    /\ writes = 0
    /\ cleanaxis = 0
    /\ IdleBroadcast
    /\ IdleConcat
    /\ IdleStack
    /\ IdleArange

\* The caller keeps the array returned, or the one it had after an error.
Returned(m, r) ==
    /\ err' = r.err
    /\ y' = IF r.err = "none" THEN r.view ELSE m
    /\ data' = IF r.err = "none" THEN Allocate(data, m, r.view) ELSE data

Rot90(karg) ==
    /\ pc \in {"ready", "done"}
    /\ LET r == rot90(y, karg)
       IN  /\ Returned(y, r)
           /\ chain' = IF karg = <<>> /\ r.err = "none" /\ chain.n < 4
                       THEN [chain EXCEPT !.n = chain.n + 1]
                       ELSE IF karg = <<>> /\ r.err = "none"
                       THEN [from |-> y, n |-> 1]
                       ELSE [from |-> y', n |-> 0]
    /\ arg' = y
    /\ call' = [op |-> "rot90", a |-> karg]
    /\ pc' = "done"
    /\ UNCHANGED <<writes, cleanaxis>>
    /\ UNCHANGED <<bvars, cvars, svars, avars>>

\* flip: let cleanaxis = axis
FlipCall(axis) ==
    /\ pc \in {"ready", "done"}
    /\ arg' = y
    /\ call' = [op |-> "flip", a |-> <<axis>>]
    /\ cleanaxis' = axis
    /\ err' = "none"
    /\ pc' = "flip_loop"
    /\ UNCHANGED <<data, y, chain, writes>>
    /\ UNCHANGED <<bvars, cvars, svars, avars>>

\* flip: one pass of while (cleanaxis < 0) cleanaxis += m.ndim
FlipLoop ==
    /\ pc = "flip_loop"
    /\ cleanaxis < 0
    /\ cleanaxis' = cleanaxis + ndim(arg)
    /\ UNCHANGED <<pc, data, y, arg, call, err, chain, writes>>
    /\ UNCHANGED <<bvars, cvars, svars, avars>>

\* flip: the loop is over; raise or return the stepped view
FlipReturn ==
    /\ pc = "flip_loop"
    /\ ~(cleanaxis < 0)
    /\ LET r == flipTail(arg, call.a[1], cleanaxis)
       IN  /\ Returned(arg, r)
           /\ chain' = [from |-> y', n |-> 0]
    /\ pc' = "done"
    /\ cleanaxis' = 0
    /\ UNCHANGED <<arg, call, writes>>
    /\ UNCHANGED <<bvars, cvars, svars, avars>>

\* The caller writes one element through the array it passed or the one it
\* got back.
Write(through, idx, value) ==
    /\ pc \in {"ready", "done"}
    /\ writes < MaxWrites
    /\ data' = Set(data, through, idx, value)
    /\ writes' = writes + 1
    /\ UNCHANGED <<pc, y, arg, call, err, chain, cleanaxis>>
    /\ UNCHANGED <<bvars, cvars, svars, avars>>

KArgs == {<<>>} \cup {<<k>> : k \in (-MaxK)..MaxK}

NextViews ==
    \/ \E karg \in KArgs : Rot90(karg)
    \/ \E axis \in (-MaxAxis)..MaxAxis : FlipCall(axis)
    \/ FlipLoop
    \/ FlipReturn
    \/ \E idx \in Indices(y.shape) : Write(y, idx, 0)
    \/ \E idx \in Indices(arg.shape) : Write(arg, idx, 0)

Spec == InitViews /\ [][NextViews]_vars

\* The loop and the return of a call that has begun are always taken.
FairSpec == Spec /\ WF_vars(FlipLoop) /\ WF_vars(FlipReturn)

(***************************************************************************)
(* arange(start, stop, step)                                               *)
(*                                                                         *)
(* A number is an integer of magnitude up to MaxNumber, or one of the two  *)
(* values past it at which adding a step no longer changes a double. The   *)
(* model keeps the first MaxResult elements of result.                     *)
(***************************************************************************)
Infinity == MaxNumber + 1

\* a + b for a step b within the bound.
Plus(a, b) ==
    IF a = Infinity \/ a = -Infinity THEN a
    ELSE IF a + b > MaxNumber THEN Infinity
    ELSE IF a + b < -MaxNumber THEN -Infinity
    ELSE a + b

\* The start, stop and step the forms of one, two and three numbers run
\* the loop with.
arangeArgs(a) ==
    IF Len(a) = 1 THEN <<0, a[1], 1>>
    ELSE IF Len(a) = 2 THEN <<a[1], a[2], 1>>
    ELSE a

\* while (start < stop)
arangeGoesOn(from, to, by) == from < to

\* arange: the arguments become the locals; const result = []
ArangeCall ==
    /\ pc = "ready"
    /\ start' = arangeArgs(args)[1]
    /\ stop' = arangeArgs(args)[2]
    /\ step' = arangeArgs(args)[3]
    /\ result' = <<>>
    /\ pc' = "arange_loop"
    /\ UNCHANGED args
    /\ UNCHANGED <<bvars, vvars, cvars, svars>>

\* arange: one pass of the loop, result[i++] = start; start += step
ArangeLoop ==
    /\ pc = "arange_loop"
    /\ arangeGoesOn(start, stop, step)
    /\ result' = IF Len(result) < MaxResult THEN Append(result, start)
                 ELSE result
    /\ start' = Plus(start, step)
    /\ UNCHANGED <<pc, args, stop, step>>
    /\ UNCHANGED <<bvars, vvars, cvars, svars>>

\* arange: the loop is over; return NdArray.new(result, dtype)
ArangeReturn ==
    /\ pc = "arange_loop"
    /\ ~arangeGoesOn(start, stop, step)
    /\ pc' = "done"
    /\ UNCHANGED <<args, start, stop, step, result>>
    /\ UNCHANGED <<bvars, vvars, cvars, svars>>

InitArange ==
    /\ pc = "ready"
    /\ \E n \in 1..3 : args \in [1..n -> (-MaxArg)..MaxArg]
    /\ start = 0
    /\ stop = 0
    /\ step = 0
    /\ result = <<>>
    /\ IdleBroadcast
    /\ IdleViews
    /\ IdleConcat
    /\ IdleStack

NextArange ==
    \/ ArangeCall
    \/ ArangeLoop
    \/ ArangeReturn

SpecArange == InitArange /\ [][NextArange]_vars

\* A call that has begun runs on: each step of it that can be taken is.
FairArange ==
    /\ SpecArange
    /\ WF_vars(ArangeCall)
    /\ WF_vars(ArangeLoop)
    /\ WF_vars(ArangeReturn)

(***************************************************************************)
(* The caller of the element-wise functions: it holds an NdArray, calls    *)
(* one function on it, keeps what is returned, and writes elements         *)
(* through the returned array.                                             *)
(***************************************************************************)
ElementShapes == SeqUpTo(1..MaxElemDim, 2)

\* The elements drawn: both sides of doSigmoid's tests, and the arguments
\* at which the other functions are exact.
ElemValues == <<-40, -20, -1, 0, 1, 20, 40>>

Stiffness == {-1, 0, 1, 2}

ElementwiseCalls ==
    {[op |-> "sigmoid", a |-> a] : a \in {<<>>} \cup {<<t>> : t \in Stiffness}}
    \cup {[op |-> "clip", a |-> a] : a \in {<<>>, <<-20>>, <<-20, 20>>}}
    \cup {[op |-> "leakyRelu", a |-> a] : a \in {<<>>, <<0>>, <<2>>}}
    \cup {[op |-> op, a |-> <<>>] :
            op \in {"tanh", "abs", "cos", "arccos", "sin", "arcsin", "tan",
                    "arctan"}}

\* The array held is a whole array or its flip along axis 0.
InitElementwise ==
    /\ pc = "ready"
    /\ \E shape \in ElementShapes, shift \in 0..(Len(ElemValues) - 1),
          flipped \in BOOLEAN :
          /\ y = IF flipped THEN flip(NewArray(1, shape), 0).view
                            ELSE NewArray(1, shape)
          /\ arg = y
          /\ data = <<[p \in 1..shapeSize(shape) |->
                         Num(ElemValues[((p + shift) % Len(ElemValues)) + 1])],
                      <<>>>>
    /\ chain = [from |-> NewArray(1, <<>>), n |-> 0]
    /\ call = NoCall
    /\ err = "none"
    /\ writes = 0
    /\ cleanaxis = 0
    /\ IdleBroadcast
    /\ IdleConcat
    /\ IdleStack
    /\ IdleArange

Elementwise(op, a) ==
    /\ pc = "ready"
    /\ LET r == elementwise(data, y, op, a)
       IN  /\ y' = r.view
           /\ data' = r.data
    /\ arg' = y
    /\ call' = [op |-> op, a |-> a]
    /\ err' = "none"
    /\ pc' = "done"
    /\ UNCHANGED <<chain, writes, cleanaxis>>
    /\ UNCHANGED <<bvars, cvars, svars, avars>>

NextElementwise ==
    \/ \E c \in ElementwiseCalls : Elementwise(c.op, c.a)
    \/ \E idx \in Indices(y.shape) : pc = "done" /\ Write(y, idx, Num(0))

SpecElementwise == InitElementwise /\ [][NextElementwise]_vars

(***************************************************************************)
(* The caller of stack.                                                    *)
(***************************************************************************)
StackShapes == SeqUpTo(1..MaxStackDim, MaxStackRank)

\* Shapes unlike s: one more axis, one fewer, a longer last axis.
Deviations(s) ==
    {Append(s, 1)} \cup
    (IF Len(s) = 0 THEN {}
     ELSE {SubSeq(s, 1, Len(s) - 1), [s EXCEPT ![Len(s)] = @ + 1]})

\* Input i of a call: its elements are 10 * i, 10 * i + 1, ...
StackInput(shape, i) ==
    [shape |-> shape,
     elems |-> [p \in 1..shapeSize(shape) |-> 10 * i + p - 1]]

AxisArgs ==
    {<<>>} \cup {<<a>> : a \in (-(MaxStackRank + 2))..(MaxStackRank + 2)}

InitStack ==
    /\ pc = "ready"
    /\ \E s \in StackShapes, n \in 0..MaxStackN :
          \/ sarrays = [i \in 1..n |-> StackInput(s, i)]
          \/ \E odd \in 1..n, dev \in Deviations(s) :
                sarrays = [i \in 1..n |->
                              StackInput(IF i = odd THEN dev ELSE s, i)]
    /\ saxis \in AxisArgs
    /\ sres = NoStack
    /\ IdleBroadcast
    /\ IdleViews
    /\ IdleConcat
    /\ IdleArange

Stack ==
    /\ pc = "ready"
    /\ sres' = stack(sarrays, saxis)
    /\ pc' = "done"
    /\ UNCHANGED <<sarrays, saxis>>
    /\ UNCHANGED <<bvars, vvars, cvars, avars>>

NextStack == Stack

SpecStack == InitStack /\ [][NextStack]_vars

(***************************************************************************)
(* The caller of concatenate.                                              *)
(***************************************************************************)
ConcatShapes ==
    UNION {[1..r -> 1..MaxConcatDim] : r \in 1..(MaxSupportedRank + 1)}

\* The inputs: the caller's two nested arrays, by reference or as the
\* content of an NdArray, and a number.
ConcatInputs ==
    {[kind |-> "arr", ref |-> 1], [kind |-> "arr", ref |-> 2],
     [kind |-> "nd", ref |-> 2], [kind |-> "num", ref |-> 7]}

InitConcat ==
    /\ pc = "ready"
    /\ \E sa \in ConcatShapes, sb \in ConcatShapes :
          objs = <<NewObject(sa, 100), NewObject(sb, 200)>>
    /\ \E n \in 1..MaxInputs : arrays \in [1..n -> ConcatInputs]
    /\ cin = [objs |-> objs, arrays |-> arrays]
    /\ cres = NoConcat
    /\ IdleBroadcast
    /\ IdleViews
    /\ IdleStack
    /\ IdleArange

Concatenate ==
    /\ pc = "ready"
    /\ LET r == concatenate(objs, arrays)
       IN  /\ objs' = r.h
           /\ arrays' = r.arrays
           /\ cres' = [err |-> r.err,
                       value |-> IF r.err = "none" THEN r.value
                                 ELSE NoConcat.value]
    /\ pc' = "done"
    /\ UNCHANGED cin
    /\ UNCHANGED <<bvars, vvars, svars, avars>>

NextConcat == Concatenate

SpecConcat == InitConcat /\ [][NextConcat]_vars

(***************************************************************************)
(* The caller of broadcast.                                                *)
(***************************************************************************)
BroadcastShapes == SeqUpTo(0..MaxDim, MaxRank)

InitBroadcast ==
    /\ pc = "ready"
    /\ shape1 \in BroadcastShapes
    /\ shape2 \in BroadcastShapes
    /\ bres = NoResult
    /\ IdleViews
    /\ IdleConcat
    /\ IdleStack
    /\ IdleArange

Broadcast ==
    /\ pc = "ready"
    /\ bres' = broadcast(shape1, shape2)
    /\ pc' = "done"
    /\ UNCHANGED <<shape1, shape2>>
    /\ UNCHANGED <<vvars, cvars, svars, avars>>

NextBroadcast == Broadcast

SpecBroadcast == InitBroadcast /\ [][NextBroadcast]_vars

(***************************************************************************)
(* Claims about broadcast.                                                 *)
(***************************************************************************)
\* The aligned pair i (0 = rightmost) of the two arguments and of the result.
Dim1(i) == At(Reverse(shape1), i)
Dim2(i) == At(Reverse(shape2), i)
DimOut(i) == At(Reverse(bres.shape), i)

\* C1: whenever broadcast returns a shape, its length is the larger of the
\* two ranks, every entry is a defined non-negative integer, and aligned from
\* the right each entry is d2 when d1 is missing or 1, else d1 when d2 is
\* missing or 1, else d1 with d1 = d2; broadcast([3,1],[1,4]) = [3,4] and
\* broadcast([2,3],[4]) fails.
C1_BroadcastRule ==
    /\ (pc = "done" /\ bres.ok) =>
        /\ Len(bres.shape) = Max(Len(shape1), Len(shape2))
        /\ \A i \in 0..(Len(bres.shape) - 1) :
              /\ DimOut(i) # Undefined
              /\ DimOut(i) \in Nat
              /\ IF Dim1(i) = Undefined \/ Dim1(i) = 1 THEN DimOut(i) = Dim2(i)
                 ELSE IF Dim2(i) = Undefined \/ Dim2(i) = 1 THEN DimOut(i) = Dim1(i)
                 ELSE Dim1(i) = Dim2(i) /\ DimOut(i) = Dim1(i)
    /\ (pc = "done" /\ shape1 = <<3, 1>> /\ shape2 = <<1, 4>>) =>
        (bres.ok /\ bres.shape = <<3, 4>>)
    /\ (pc = "done" /\ shape1 = <<2, 3>> /\ shape2 = <<4>>) => ~bres.ok

\* An aligned pair with both dimensions present, neither 1, and unequal.
Clash(i) ==
    /\ Dim1(i) # Undefined
    /\ Dim2(i) # Undefined
    /\ Dim1(i) # 1
    /\ Dim2(i) # 1
    /\ Dim1(i) # Dim2(i)

Longer == IF Len(shape1) >= Len(shape2) THEN shape1 ELSE shape2
Shorter == IF Len(shape1) >= Len(shape2) THEN shape2 ELSE shape1

\* C2: broadcast signals failure exactly when some aligned pair clashes; in
\* every other case (an empty shape, a shorter shape, a dimension 0) it
\* returns a shape whose missing leading dimensions are those of the longer
\* argument.
C2_BroadcastFailsIffClash ==
    pc = "done" =>
        /\ ~bres.ok <=> \E i \in 0..(Len(Longer) - 1) : Clash(i)
        /\ bres.ok =>
            /\ Len(bres.shape) = Len(Longer)
            /\ \A i \in Len(Shorter)..(Len(Longer) - 1) :
                  DimOut(i) = At(Reverse(Longer), i)

(***************************************************************************)
(* Claims about flip and rot90.                                            *)
(***************************************************************************)
\* a and b have the same shape and the same element at every index.
Same(a, b) ==
    /\ a.shape = b.shape
    /\ \A idx \in Indices(a.shape) : Get(data, a, idx) = Get(data, b, idx)

\* idx with the sources' axis a (0-based) set to v.
WithAxis(idx, a, v) == [idx EXCEPT ![a + 1] = v]

\* C3: four rot90 calls in a row with the default k and axes, begun on a
\* 2-D array, all succeed and give back an array with the shape of the
\* first and the same element at every index.
C3_Rot90FourTimes ==
    /\ (pc = "done" /\ call = [op |-> "rot90", a |-> <<>>] /\ ndim(arg) = 2)
           => err = "none"
    /\ (chain.n = 4 /\ ndim(chain.from) = 2) => Same(y, chain.from)

C3_Witness ==
    /\ chain.n = 4
    /\ chain.from.shape = <<1, 2>>
    /\ chain.from.stride = <<-2, 1>>
    /\ Same(y, chain.from)

\* C4: rot90 called with an explicit k that is a multiple of 4 (0 and the
\* negative multiples included) on an array of rank 2 or more returns the
\* array unchanged.
C4_Rot90MultipleOfFour ==
    (/\ pc = "done"
     /\ call.op = "rot90"
     /\ call.a # <<>>
     /\ ndim(arg) >= 2)
        => (call.a[1] % 4 = 0 => err = "none" /\ Same(y, arg))

\* The axis a valid flip axis stands for.
AxisOf(axis, d) == IF axis < 0 THEN axis + d ELSE axis

FlipOf(axis) ==
    /\ y.shape = arg.shape
    /\ \A idx \in Indices(y.shape) :
          Get(data, y, idx) =
              Get(data, arg,
                  WithAxis(idx, axis, arg.shape[axis + 1] - 1 - idx[axis + 1]))

\* C8: flip(m, a) of an array of rank ndim >= 1 along a valid axis a
\* (-ndim <= a < ndim) has m's shape, and its element at an index is m's
\* element at the index mirrored along a, every other axis unchanged.
C8_FlipMirrors ==
    (/\ pc = "done"
     /\ call.op = "flip"
     /\ ndim(arg) >= 1
     /\ call.a[1] >= -ndim(arg)
     /\ call.a[1] < ndim(arg))
        => (err = "none" /\ FlipOf(AxisOf(call.a[1], ndim(arg))))

C8_Witness ==
    /\ pc = "done"
    /\ call = [op |-> "flip", a |-> <<-1>>]
    /\ arg.shape = <<2, 1, 2>>
    /\ err = "none"
    /\ y.stride[3] = -arg.stride[3]
    /\ y.stride[1] = arg.stride[1]

\* The buffer positions an array reaches, and each only once.
Cells(m) == {Pos(m, idx) : idx \in Indices(m.shape)}

SameCells(a, b) ==
    /\ a.buf = b.buf
    /\ Cells(a) = Cells(b)
    /\ Cardinality(Cells(a)) = Cardinality(Indices(a.shape))

\* y is arg turned q quarter turns from axis 0 towards axis 1.
RotOf(q) ==
    LET rows == arg.shape[1]
        cols == arg.shape[2]
    IN  /\ y.shape = IF q \in {1, 3}
                     THEN [arg.shape EXCEPT ![1] = cols, ![2] = rows]
                     ELSE arg.shape
        /\ \A idx \in Indices(y.shape) :
              Get(data, y, idx) =
                  Get(data, arg,
                      CASE q = 1 -> WithAxis(WithAxis(idx, 0, idx[2]),
                                             1, cols - 1 - idx[1])
                        [] q = 2 -> WithAxis(WithAxis(idx, 0, rows - 1 - idx[1]),
                                             1, cols - 1 - idx[2])
                        [] q = 3 -> WithAxis(WithAxis(idx, 0, rows - 1 - idx[2]),
                                             1, idx[1]))

\* C9: the array flip or rot90 returns is a view of the buffer of the array
\* it was given: before and after every write through either, the two reach
\* the same buffer cells and the returned array's element at an index is the
\* given array's element at the mirrored (flip) or rotated (rot90, k mod 4
\* quarter turns, one for the default k) index. For k = 0 given explicitly
\* only the sharing is stated.
C9_ViewsShareBuffer ==
    (pc = "done" /\ call.op # "none" /\ err = "none") =>
        /\ SameCells(y, arg)
        /\ call.op = "flip" => FlipOf(call.a[1] % ndim(arg))
        /\ (call.op = "rot90" /\ call.a = <<>>) => RotOf(1)
        /\ (call.op = "rot90" /\ call.a # <<>>) =>
              \/ call.a[1] = 0
              \/ call.a[1] % 4 = 0 /\ Same(y, arg)
              \/ call.a[1] % 4 # 0 /\ RotOf(call.a[1] % 4)

C9_Witness ==
    /\ pc = "done"
    /\ call = [op |-> "rot90", a |-> <<-1>>]
    /\ err = "none"
    /\ writes > 0
    /\ arg.shape = <<2, 1>>
    /\ y.shape = <<1, 2>>
    /\ Get(data, y, <<0, 0>>) = 0
    /\ Get(data, arg, <<1, 0>>) = 0

\* No valid axis index stands for axis in an array of rank d.
InvalidAxis(axis, d) == d = 0 \/ axis >= d

\* C10: flip adds ndim to a negative axis until it is non-negative and then
\* raises ValueError when that is no axis index in [0, ndim), for every
\* axis and every rank, rank 0 with a negative axis included: a call with
\* such an axis ends, and ends in ValueError.
C10_FlipRaisesOnInvalidAxis ==
    (pc = "flip_loop" /\ InvalidAxis(call.a[1], ndim(arg)))
        ~> (pc = "done" /\ err = "ValueError")

(***************************************************************************)
(* Claims about concatenate.                                               *)
(***************************************************************************)
\* Input i as it was passed: the nested array, the NdArray's list, or the
\* one-element list a number stands for.
InputObj(i) ==
    LET a == cin.arrays[i]
    IN  IF a.kind = "num" THEN [d |-> 1, v |-> <<a.ref>>] ELSE cin.objs[a.ref]

InputShape(i) == getShape(InputObj(i))

InputRank(i) == Len(InputShape(i))

NumInputs == Len(cin.arrays)

RanksDiffer ==
    \E i, j \in 1..NumInputs : InputRank(i) # InputRank(j)

NonLastDiffer ==
    /\ ~RanksDiffer
    /\ InputRank(1) \in {2, 3}
    /\ \E i, j \in 1..NumInputs : \E ax \in 1..(InputRank(1) - 1) :
          InputShape(i)[ax] # InputShape(j)[ax]

RankTooLarge == \E i \in 1..NumInputs : InputRank(i) > MaxSupportedRank

Joinable ==
    /\ ~RanksDiffer
    /\ InputRank(1) \in 1..MaxSupportedRank
    /\ ~NonLastDiffer

\* The nested arrays vs of depth d joined along their last axis, in order.
RECURSIVE JoinLast(_, _)
JoinLast(d, vs) ==
    IF d = 1 THEN JoinSeqs(vs, Len(vs))
    ELSE [r \in 1..Len(vs[1]) |->
            JoinLast(d - 1, [i \in 1..Len(vs) |-> vs[i][r]])]

\* C7: concatenate raises ValueError when two inputs differ in rank, when
\* two inputs of rank 2 or 3 differ in an axis other than the last, and when
\* the inputs have rank above 3; for inputs of one rank 1 to 3 whose other
\* axes match it returns their non-last dimensions, the sum of their last
\* dimensions, and their elements joined in argument order along the last
\* axis.
C7_ConcatenateContract ==
    pc = "done" =>
        /\ (RanksDiffer \/ NonLastDiffer \/ RankTooLarge)
              => cres.err = "ValueError"
        /\ Joinable =>
              /\ cres.err = "none"
              /\ getShape(cres.value) =
                    SubSeq(InputShape(1), 1, InputRank(1) - 1) \o
                    <<SumTo([i \in 1..NumInputs |->
                                InputShape(i)[InputRank(i)]], NumInputs)>>
              /\ cres.value.v =
                    JoinLast(InputRank(1),
                             [i \in 1..NumInputs |-> InputObj(i).v])

(***************************************************************************)
(* Claims about stack.                                                     *)
(***************************************************************************)
\* The inputs are n >= 1 arrays (or numbers) of one shape.
SameShapeInputs ==
    /\ Len(sarrays) >= 1
    /\ \A i \in 1..Len(sarrays) : sarrays[i].shape = sarrays[1].shape

StackRank == Len(sarrays[1].shape)

\* The axis asked for, 0 when omitted.
AxisAsked == IF saxis = <<>> THEN 0 ELSE saxis[1]

AxisInRange == AxisAsked >= -(StackRank + 1) /\ AxisAsked <= StackRank

\* The position of the new axis in the result, counted from the front.
NewAxis == IF AxisAsked < 0 THEN AxisAsked + StackRank + 1 ELSE AxisAsked

\* idx with i put in at position a (0-based).
InsertAt(idx, a, i) ==
    SubSeq(idx, 1, a) \o <<i>> \o SubSeq(idx, a + 1, Len(idx))

\* The row-major position (from 0) of a multi-index.
Ravel(idx, shape) == Pos(NewArray(1, shape), idx)

\* C5: stack of n >= 1 inputs of one shape s of rank r along an axis in
\* [-(r+1), r] returns an array of rank r + 1 whose dimension at the axis
\* (a negative one counted from the end) is n and whose other dimensions are
\* s in order, [n].concat(s) for axis 0, and whose sub-array at index i of
\* the new axis is input i.
C5_StackShapeLaw ==
    (pc = "done" /\ SameShapeInputs /\ AxisInRange) =>
        LET s == sarrays[1].shape
            n == Len(sarrays)
        IN  /\ sres.err = "none"
            /\ sres.view.shape = InsertAt(s, NewAxis, n)
            /\ AxisAsked = 0 => sres.view.shape = <<n>> \o s
            /\ \A i \in 1..n : \A idx \in Indices(s) :
                  sres.data[Pos(sres.view, InsertAt(idx, NewAxis, i - 1)) + 1]
                      = sarrays[i].elems[Ravel(idx, s) + 1]

C5_Witness ==
    /\ pc = "done"
    /\ Len(sarrays) = 3
    /\ SameShapeInputs
    /\ sarrays[1].shape = <<1, 2>>
    /\ saxis = <<-1>>
    /\ sres.err = "none"
    /\ sres.view.shape = <<1, 2, 3>>
    /\ sres.data[Pos(sres.view, <<0, 1, 2>>) + 1] = sarrays[3].elems[2]

\* C6: stack raises ValueError whenever the axis asked for is out of range,
\* axis > r or axis < -(r+1) for inputs of rank r; it returns no array
\* stacked along another axis.
C6_StackAxisOutOfRange ==
    (pc = "done" /\ SameShapeInputs /\ ~AxisInRange) =>
        sres.err = "ValueError"

(***************************************************************************)
(* Claims about the element-wise functions.                                *)
(***************************************************************************)
ElementwiseOps ==
    {"sigmoid", "clip", "leakyRelu", "tanh", "abs", "cos", "sin", "tan",
     "arccos", "arcsin", "arctan"}

\* The array the caller gave or is about to give to the function.
Given == IF pc = "ready" THEN y ELSE arg

\* C11: sigmoid, clip, leakyRelu, tanh, abs, cos, sin, tan, arccos, arcsin
\* and arctan called with an NdArray x leave x's shape and every element of
\* x as they were, and return an array of x's shape in a buffer of its own:
\* neither the call nor a later write through the result changes an element
\* of x.
C11_ElementwiseLeavesArgument ==
    [][(pc' = "done" /\ call'.op \in ElementwiseOps) =>
          /\ arg' = Given
          /\ Flat(data', arg') = Flat(data, Given)
          /\ y'.shape = Given.shape
          /\ y'.buf # Given.buf]_vars

C11_Witness ==
    /\ pc = "done"
    /\ call.op = "abs"
    /\ writes > 0
    /\ arg.shape = <<2, 2>>
    /\ arg.stride = <<-2, 1>>
    /\ Get(data, arg, <<0, 0>>) = Num(-40)
    /\ Get(data, y, <<0, 0>>) = Num(0)
    /\ Get(data, y, <<0, 1>>) = Num(20)

\* The stiffness the caller asked for: 1 when omitted.
Stiff == IF call.a = <<>> THEN 1 ELSE call.a[1]

\* The sigmoid of one element x under the stiffness t, saturating on t * x.
SigmoidOf(t, x) ==
    IF t * x < -30 THEN Num(0)
    ELSE IF t * x > 30 THEN Num(1)
    ELSE Of("logistic", t * x)

\* C12: every element of sigmoid(x, t) is exactly 0 where t * x < -30,
\* exactly 1 where t * x > 30 and 1 / (1 + exp(-t * x)) elsewhere, t being
\* the stiffness passed, 1 when omitted: the branch depends on t * x, not
\* on x alone.
C12_SigmoidSaturatesOnProduct ==
    (pc = "done" /\ call.op = "sigmoid" /\ writes = 0) =>
        \A idx \in Indices(arg.shape) :
            Get(data, y, idx) = SigmoidOf(Stiff, Get(data, arg, idx).x)

(***************************************************************************)
(* Claims about arange.                                                    *)
(***************************************************************************)
\* C13: arange ends for every numeric start, stop and step, step = 0 and a
\* negative step with start < stop included: a call that has entered its
\* loop leaves it and returns.
C13_ArangeTerminates == (pc = "arange_loop") ~> (pc = "done")

(***************************************************************************)
(* Claims about the arguments of concatenate.                              *)
(***************************************************************************)
\* Input i was passed as a plain nested array of rank 1 to 3.
PlainInput(i) ==
    /\ cin.arrays[i].kind = "arr"
    /\ InputRank(i) \in 1..MaxSupportedRank

\* C14: once concatenate has returned or raised, the list it was given holds
\* the same inputs at the same positions, and every input passed as a plain
\* nested array of rank 1 to 3 has the rows, lengths and elements it had
\* before the call.
C14_ConcatenateLeavesArguments ==
    pc = "done" =>
        /\ arrays = cin.arrays
        /\ \A i \in 1..NumInputs :
              PlainInput(i) => objs[cin.arrays[i].ref] = InputObj(i)

(***************************************************************************)
(* Claims about the symmetry of broadcast.                                 *)
(***************************************************************************)
\* C15: broadcast(shape1, shape2) and broadcast(shape2, shape1) both signal
\* failure or both return the same shape, for every two shapes of
\* non-negative integers.
C15_BroadcastSymmetric ==
    pc = "done" =>
        LET swapped == broadcast(shape2, shape1)
        IN  /\ bres.ok = swapped.ok
            /\ bres.ok => bres.shape = swapped.shape

====
